---- MODULE Spec2Model ----
(***************************************************************************)
(* A model of pylib/cqlshlib/cql3handling.py: the CQL3 name escaping       *)
(* functions, the completer functions registered for the grammar's         *)
(* bindings, and the decoding of schema rows into a CqlTableDef.           *)
(*                                                                         *)
(* Strings whose characters the code inspects are sequences of one-        *)
(* character strings.  None is Python's None.                              *)
(***************************************************************************)
EXTENDS Integers, Sequences, FiniteSets, TLC

VARIABLES
    name,       \* the argument of the name escaping functions
    escaped,    \* the value returned by (maybe_)cql3_escape_name
    dequoted,   \* the value returned by cql3_dequote_name
    npc,        \* which of the name functions have been applied
    layout,     \* the schema_columnfamilies row given to CqlTableDef.from_layout
    coldefs,    \* the schema_columns rows given to CqlTableDef.from_layout
    cf,         \* the CqlTableDef under construction / returned
    warnings,   \* the UnexpectedTableStructure warnings issued, in order
    tpc,        \* "start", "returned" or "raised"
    ctxt,       \* the bindings of the completion context
    cass,       \* the answers of the schema accessor
    position,   \* the binding the cursor is at
    cpc,        \* "start", or "done" once the completers have run
    candidates  \* what the completer of that binding returned

nameVars == <<name, escaped, dequoted, npc>>
tableVars == <<layout, coldefs, cf, warnings, tpc>>
complVars == <<ctxt, cass, position, cpc, candidates>>
vars == <<name, escaped, dequoted, npc, layout, coldefs, cf, warnings, tpc,
          ctxt, cass, position, cpc, candidates>>

None == "None"

(***************************************************************************)
(* Bounds of the model.                                                    *)
(***************************************************************************)
MaxNameLen == 3

(***************************************************************************)
(* Characters.                                                             *)
(***************************************************************************)
LowerLetters == {"a", "b", "c", "d", "e", "f", "g", "h", "i", "j", "k", "l", "m", "n", "o", "p", "q", "r", "s", "t", "u", "v", "w", "x", "y", "z"}
UpperLetters == {"A", "B", "C", "D", "E", "F", "G", "H", "I", "J", "K", "L", "M", "N", "O", "P", "Q", "R", "S", "T", "U", "V", "W", "X", "Y", "Z"}
Digits == {"0", "1", "2", "3", "4", "5", "6", "7", "8", "9"}
Whitespace == {" ", "\t", "\n", "\r", "\f"}
CasePairs == {<<"A","a">>, <<"B","b">>, <<"C","c">>, <<"D","d">>, <<"E","e">>, <<"F","f">>, <<"G","g">>, <<"H","h">>, <<"I","i">>, <<"J","j">>, <<"K","k">>, <<"L","l">>, <<"M","m">>, <<"N","n">>, <<"O","o">>, <<"P","p">>, <<"Q","q">>, <<"R","r">>, <<"S","s">>, <<"T","t">>, <<"U","u">>, <<"V","v">>, <<"W","w">>, <<"X","x">>, <<"Y","y">>, <<"Z","z">>}

\* the lower-case form of a character (str.lower on one character)
LowerChar(c) ==
    IF c \in UpperLetters THEN (CHOOSE p \in CasePairs : p[1] = c)[2] ELSE c

LowerStr(s) == [i \in 1..Len(s) |-> LowerChar(s[i])]

UpperChar(c) ==
    IF c \in LowerLetters THEN (CHOOSE p \in CasePairs : p[2] = c)[1] ELSE c

UpperStr(s) == [i \in 1..Len(s) |-> UpperChar(s[i])]

\* the characters names are drawn from
NameAlphabet == {"i", "n", "I", "N", "1", "_", "\"", " ", "\n"}

RECURSIVE SeqsUpTo(_, _)
SeqsUpTo(S, n) ==
    IF n = 0 THEN {<<>>}
    ELSE LET shorter == SeqsUpTo(S, n - 1)
         IN  shorter \cup {Append(s, c) : s \in {t \in shorter : Len(t) = n - 1}, c \in S}

Names == SeqsUpTo(NameAlphabet, MaxNameLen)

(***************************************************************************)
(* keywords                                                                *)
(***************************************************************************)
keywords == {
    <<"s","e","l","e","c","t">>,
    <<"f","r","o","m">>,
    <<"w","h","e","r","e">>,
    <<"a","n","d">>,
    <<"k","e","y">>,
    <<"i","n","s","e","r","t">>,
    <<"u","p","d","a","t","e">>,
    <<"w","i","t","h">>,
    <<"l","i","m","i","t">>,
    <<"u","s","i","n","g">>,
    <<"c","o","n","s","i","s","t","e","n","c","y">>,
    <<"o","n","e">>,
    <<"q","u","o","r","u","m">>,
    <<"a","l","l">>,
    <<"a","n","y">>,
    <<"l","o","c","a","l","_","q","u","o","r","u","m">>,
    <<"e","a","c","h","_","q","u","o","r","u","m">>,
    <<"t","w","o">>,
    <<"t","h","r","e","e">>,
    <<"u","s","e">>,
    <<"c","o","u","n","t">>,
    <<"s","e","t">>,
    <<"b","e","g","i","n">>,
    <<"a","p","p","l","y">>,
    <<"b","a","t","c","h">>,
    <<"t","r","u","n","c","a","t","e">>,
    <<"d","e","l","e","t","e">>,
    <<"i","n">>,
    <<"c","r","e","a","t","e">>,
    <<"k","e","y","s","p","a","c","e">>,
    <<"s","c","h","e","m","a">>,
    <<"c","o","l","u","m","n","f","a","m","i","l","y">>,
    <<"t","a","b","l","e">>,
    <<"i","n","d","e","x">>,
    <<"o","n">>,
    <<"d","r","o","p">>,
    <<"p","r","i","m","a","r","y">>,
    <<"i","n","t","o">>,
    <<"v","a","l","u","e","s">>,
    <<"t","i","m","e","s","t","a","m","p">>,
    <<"t","t","l">>,
    <<"a","l","t","e","r">>,
    <<"a","d","d">>,
    <<"t","y","p","e">>,
    <<"c","o","m","p","a","c","t">>,
    <<"s","t","o","r","a","g","e">>,
    <<"o","r","d","e","r">>,
    <<"b","y">>,
    <<"a","s","c">>,
    <<"d","e","s","c">>
}

(***************************************************************************)
(* Python string helpers.                                                  *)
(***************************************************************************)
RECURSIVE Flatten(_)
Flatten(ss) == IF ss = <<>> THEN <<>> ELSE Head(ss) \o Flatten(Tail(ss))

\* s.replace('"', '""')
DoubleQuotes(s) == Flatten([i \in 1..Len(s) |-> IF s[i] = "\"" THEN <<"\"", "\"">> ELSE <<s[i]>>])

\* s.replace('""', '"'): leftmost non-overlapping occurrences
RECURSIVE UndoubleQuotes(_)
UndoubleQuotes(s) ==
    IF Len(s) < 2 THEN s
    ELSE IF s[1] = "\"" /\ s[2] = "\""
         THEN <<"\"">> \o UndoubleQuotes(SubSeq(s, 3, Len(s)))
         ELSE <<s[1]>> \o UndoubleQuotes(Tail(s))

RECURSIVE LStrip(_)
LStrip(s) == IF s # <<>> /\ Head(s) \in Whitespace THEN LStrip(Tail(s)) ELSE s

RECURSIVE RStrip(_)
RStrip(s) ==
    IF s # <<>> /\ s[Len(s)] \in Whitespace THEN RStrip(SubSeq(s, 1, Len(s) - 1)) ELSE s

\* s.strip()
Strip(s) == RStrip(LStrip(s))

\* s[1:-1]
Slice1ToLast(s) == SubSeq(s, 2, Len(s) - 1)

(***************************************************************************)
(* Name escaping.                                                          *)
(***************************************************************************)
cql3_escape_name(n) == <<"\"">> \o DoubleQuotes(n) \o <<"\"">>

cql3_dequote_name(n) ==
    LET stripped == Strip(n)
    IN  IF stripped = <<>> THEN stripped
        ELSE IF stripped[1] = "\"" THEN UndoubleQuotes(Slice1ToLast(stripped))
        ELSE stripped

\* [a-z] and [0-9a-z_] under re.I
WordStart == LowerLetters \cup UpperLetters
WordChars == LowerLetters \cup UpperLetters \cup Digits \cup {"_"}

\* the whole of s is [a-z][0-9a-z_]*
WholeWord(s) ==
    /\ Len(s) >= 1
    /\ s[1] \in WordStart
    /\ \A i \in 2..Len(s) : s[i] \in WordChars

\* valid_cql3_word_re.match(s) is not None.  Without re.MULTILINE, $ matches
\* at the end of the string and also just before a newline that ends it.
valid_cql3_word_re(s) ==
    \/ WholeWord(s)
    \/ /\ Len(s) >= 2
       /\ s[Len(s)] = "\n"
       /\ WholeWord(SubSeq(s, 1, Len(s) - 1))

is_valid_cql3_name(s) == valid_cql3_word_re(s) /\ s \notin keywords

maybe_cql3_escape_name(n) ==
    IF is_valid_cql3_name(n) THEN n ELSE cql3_escape_name(n)

(***************************************************************************)
(* The states of the parts of the model a specification leaves alone.      *)
(***************************************************************************)
NamesIdle ==
    /\ name = <<>>
    /\ escaped = None
    /\ dequoted = None
    /\ npc = "idle"

TableIdle ==
    /\ layout = None
    /\ coldefs = <<>>
    /\ cf = None
    /\ warnings = <<>>
    /\ tpc = "idle"

ComplIdle ==
    /\ ctxt = None
    /\ cass = None
    /\ position = None
    /\ cpc = "idle"
    /\ candidates = None

(***************************************************************************)
(* SpecNames: the name escaping functions applied to a name.               *)
(***************************************************************************)
InitNames ==
    /\ name \in Names
    /\ escaped = None
    /\ dequoted = None
    /\ npc = "start"
    /\ TableIdle
    /\ ComplIdle

MaybeEscapeName ==
    /\ npc = "start"
    /\ escaped' = maybe_cql3_escape_name(name)
    /\ npc' = "maybe_escaped"
    /\ UNCHANGED <<name, dequoted, tableVars, complVars>>

EscapeName ==
    /\ npc = "start"
    /\ escaped' = cql3_escape_name(name)
    /\ npc' = "escaped"
    /\ UNCHANGED <<name, dequoted, tableVars, complVars>>

DequoteName ==
    /\ npc \in {"maybe_escaped", "escaped"}
    /\ dequoted' = cql3_dequote_name(escaped)
    /\ npc' = IF npc = "escaped" THEN "escaped_dequoted" ELSE "maybe_escaped_dequoted"
    /\ UNCHANGED <<name, escaped, tableVars, complVars>>

NextNames == MaybeEscapeName \/ EscapeName \/ DequoteName

SpecNames == InitNames /\ [][NextNames]_vars

\* C1: escaping a name and dequoting the result gives the name back, for
\* maybe_cql3_escape_name and for cql3_escape_name alike.
C1_RoundTrip ==
    npc \in {"escaped_dequoted", "maybe_escaped_dequoted"} => dequoted = name

\* the part of C1 that the code keeps: cql3_escape_name always round-trips
C1_EscapeRoundTrip == npc = "escaped_dequoted" => dequoted = name

\* C2: maybe_cql3_escape_name returns the name unchanged exactly when the
\* whole name is a bare identifier that is not a keyword in any letter case,
\* and otherwise the name in double quotes with its double quotes doubled.
C2_MaybeEscape ==
    npc = "maybe_escaped" =>
        escaped = IF WholeWord(name) /\ LowerStr(name) \notin keywords
                  THEN name
                  ELSE <<"\"">> \o DoubleQuotes(name) \o <<"\"">>

(***************************************************************************)
(* Schema rows.  A type descriptor and a comparator are sequences of       *)
(* tokens: a class name, "(", "," or ")".  A JSON text is a sequence of    *)
(* tokens too: P(c) for the punctuation c, Lit(v) for the string literal   *)
(* whose value is v.  A JSON field of the row is [present, text]; a row    *)
(* that lacks the field has present = FALSE.                               *)
(***************************************************************************)
MaxAliases == 2
MaxSubtypes == 3
MaxColumnRows == 2

\* a cf attribute that was never set
Absent == "Absent"

composite_type_name == "org.apache.cassandra.db.marshal.CompositeType"
colname_type_name == "org.apache.cassandra.db.marshal.UTF8Type"
Int32TypeName == "org.apache.cassandra.db.marshal.Int32Type"
LongTypeName == "org.apache.cassandra.db.marshal.LongType"
BytesTypeName == "org.apache.cassandra.db.marshal.BytesType"

\* cqlhandling.cql_typename: the CQL name of a type descriptor
cql_typename(descr) ==
    IF Len(descr) # 1 THEN descr
    ELSE CASE descr[1] = colname_type_name -> "text"
           [] descr[1] = Int32TypeName -> "int"
           [] descr[1] = LongTypeName -> "bigint"
           [] descr[1] = BytesTypeName -> "blob"
           [] OTHER -> descr

\* ---- json.loads ----
JsonFail == [ok |-> FALSE, value |-> None]

P(c) == <<"punct", c>>
Lit(v) == <<"lit", v>>
IsLit(tok) == tok[1] = "lit"

\* the items of  item ("," item)*  , or failure
RECURSIVE JsonItems(_)
JsonItems(toks) ==
    IF toks = <<>> \/ ~IsLit(toks[1]) THEN JsonFail
    ELSE IF Len(toks) = 1 THEN [ok |-> TRUE, value |-> <<toks[1][2]>>]
    ELSE IF toks[2] # P(",") THEN JsonFail
    ELSE LET rest == JsonItems(SubSeq(toks, 3, Len(toks)))
         IN  IF rest.ok THEN [ok |-> TRUE, value |-> <<toks[1][2]>> \o rest.value]
             ELSE JsonFail

\* the pairs of  key ":" value ("," key ":" value)*  , or failure
RECURSIVE JsonPairs(_)
JsonPairs(toks) ==
    IF Len(toks) < 3 \/ ~IsLit(toks[1]) \/ toks[2] # P(":") \/ ~IsLit(toks[3]) THEN JsonFail
    ELSE IF Len(toks) = 3 THEN [ok |-> TRUE, value |-> <<<<toks[1][2], toks[3][2]>>>>]
    ELSE IF toks[4] # P(",") THEN JsonFail
    ELSE LET rest == JsonPairs(SubSeq(toks, 5, Len(toks)))
         IN  IF rest.ok
             THEN [ok |-> TRUE, value |-> <<<<toks[1][2], toks[3][2]>>>> \o rest.value]
             ELSE JsonFail

\* json.loads(text): a list, a mapping (as a sequence of pairs), or ValueError
json_loads(toks) ==
    IF Len(toks) < 2 THEN JsonFail
    ELSE LET inner == SubSeq(toks, 2, Len(toks) - 1)
         IN  IF toks[1] = P("[") /\ toks[Len(toks)] = P("]")
             THEN IF inner = <<>> THEN [ok |-> TRUE, value |-> <<>>] ELSE JsonItems(inner)
             ELSE IF toks[1] = P("{") /\ toks[Len(toks)] = P("}")
             THEN IF inner = <<>> THEN [ok |-> TRUE, value |-> <<>>] ELSE JsonPairs(inner)
             ELSE JsonFail

\* ---- str methods on a comparator ----
StartsWithComposite(c) == Len(c) >= 2 /\ c[1] = composite_type_name /\ c[2] = "("

EndsWithColname(c) == Len(c) >= 2 /\ c[Len(c) - 1] = colname_type_name /\ c[Len(c)] = ")"

\* c.count(',')
CountCommas(c) == Cardinality({i \in 1..Len(c) : c[i] = ","})

\* c.split(',')
RECURSIVE SplitCommas(_, _)
SplitCommas(c, cur) ==
    IF c = <<>> THEN <<cur>>
    ELSE IF Head(c) = "," THEN <<cur>> \o SplitCommas(Tail(c), <<>>)
    ELSE SplitCommas(Tail(c), Append(cur, Head(c)))

\* ---- CqlColumnDef ----
CqlColumnDef(colname, cqltype) ==
    [name |-> colname, cqltype |-> cqltype, index_name |-> None]

CqlColumnDef_from_layout(row) ==
    [name |-> row.column, cqltype |-> cql_typename(row.validator), index_name |-> row.index_name]

\* Python 2's map(f, a, b): the shorter sequence is padded with None
MapPad(a, b) ==
    LET n == IF Len(a) >= Len(b) THEN Len(a) ELSE Len(b)
    IN  [i \in 1..n |-> CqlColumnDef(IF i <= Len(a) THEN a[i] ELSE None,
                                     IF i <= Len(b) THEN b[i] ELSE None)]

\* ---- CqlTableDef ----
\* KeySubtypes without the pop(-1) of the dynamic storage case
KeySubtypes_NoPop(self) ==
    IF StartsWithComposite(self.comparator)
    THEN LET subtypenames == SubSeq(self.comparator, 3, Len(self.comparator) - 1)
             pieces == SplitCommas(subtypenames, <<>>)
         IN  <<self.key_validator>> \o [i \in 1..Len(pieces) |-> cql_typename(pieces[i])]
    ELSE <<self.key_validator, cql_typename(self.comparator)>>

\* the subtypes list as parse_composite has it when it builds the key columns
KeySubtypes(self) ==
    LET all == IF StartsWithComposite(self.comparator)
               THEN LET subtypenames == SubSeq(self.comparator, 3, Len(self.comparator) - 1)
                        pieces == SplitCommas(subtypenames, <<>>)
                    IN  <<self.key_validator>> \o [i \in 1..Len(pieces) |-> cql_typename(pieces[i])]
               ELSE <<self.key_validator, cql_typename(self.comparator)>>
    IN  IF Len(self.column_aliases) > 0 /\ Len(self.coldefs) > 0
        THEN SubSeq(all, 1, Len(all) - 1)
        ELSE all

\* parse_composite deciding compact storage by the value alias alone, the
\* column rows discarded
parse_composite_ByValueAlias(self) ==
    LET compact == self.value_alias # None
        value_cols == IF compact
                      THEN <<CqlColumnDef(self.value_alias, self.default_validator)>>
                      ELSE <<>>
        keycols == MapPad(self.key_components, KeySubtypes_NoPop(self))
        normal_cols == IF compact THEN <<>>
                       ELSE [i \in 1..Len(self.coldefs) |->
                                CqlColumnDef_from_layout(self.coldefs[i])]
    IN  [self EXCEPT !.compact_storage = IF compact THEN TRUE ELSE @,
                     !.columns = keycols \o value_cols \o normal_cols]

parse_composite(self) ==
    LET compact == Len(self.column_aliases) > 0 /\ Len(self.coldefs) = 0
        value_cols == IF compact
                      THEN <<CqlColumnDef(self.value_alias, self.default_validator)>>
                      ELSE <<>>
        keycols == MapPad(self.key_components, KeySubtypes(self))
        normal_cols == [i \in 1..Len(self.coldefs) |-> CqlColumnDef_from_layout(self.coldefs[i])]
    IN  [self EXCEPT !.compact_storage = IF compact THEN TRUE ELSE @,
                     !.columns = keycols \o value_cols \o normal_cols]

\* num_subtypes without the extra subtype of compact storage
num_subtypes_NoCompact(self) == CountCommas(self.comparator) + 1

\* num_subtypes of check_assumptions
num_subtypes(self) ==
    CountCommas(self.comparator) + 1 + (IF self.compact_storage THEN 1 ELSE 0)

\* check_assumptions with the key count checked only when the shape is as
\* expected
check_assumptions_CountLast(self) ==
    LET shape ==
            IF self.value_alias # None
            THEN IF Len(self.coldefs) > 0 THEN <<"compact_with_coldefs">>
                 ELSE IF Len(self.column_aliases) = 0 THEN <<"compact_without_aliases">>
                 ELSE <<>>
            ELSE IF StartsWithComposite(self.comparator)
            THEN IF Len(self.column_aliases) = 0 THEN <<"composite_without_aliases">>
                 ELSE IF ~EndsWithColname(self.comparator) THEN <<"composite_last_not_colname">>
                 ELSE IF Len(self.coldefs) = 0 THEN <<"composite_without_coldefs">>
                 ELSE <<>>
            ELSE IF Len(self.column_aliases) > 0 THEN <<"noncomposite_with_aliases">>
                 ELSE <<>>
    IN  IF shape # <<>> THEN shape
        ELSE IF Len(self.key_components) # CountCommas(self.comparator) + 1
                    + (IF self.compact_storage THEN 1 ELSE 0)
        THEN <<"key_components_length">>
        ELSE <<>>

\* the warnings check_assumptions issues, in order
check_assumptions(self) ==
    LET shape ==
            IF self.value_alias # None
            THEN IF Len(self.coldefs) > 0 THEN <<"compact_with_coldefs">>
                 ELSE IF Len(self.column_aliases) = 0 THEN <<"compact_without_aliases">>
                 ELSE <<>>
            ELSE IF StartsWithComposite(self.comparator)
            THEN IF Len(self.column_aliases) = 0 THEN <<"composite_without_aliases">>
                 ELSE IF ~EndsWithColname(self.comparator) THEN <<"composite_last_not_colname">>
                 ELSE IF Len(self.coldefs) = 0 THEN <<"composite_without_coldefs">>
                 ELSE <<>>
            ELSE IF Len(self.column_aliases) > 0 THEN <<"noncomposite_with_aliases">>
                 ELSE <<>>
        count ==
            IF Len(self.key_components) # num_subtypes(self)
            THEN <<"key_components_length">>
            ELSE <<>>
    IN  shape \o count

json_attrs == <<"column_aliases", "compaction_strategy_options", "compression_parameters">>

\* CqlTableDef.from_layout: [raised, cf, warnings]
from_layout(row, rows) ==
    LET present == {i \in 1..Len(json_attrs) : row[json_attrs[i]].present}
        decoded == [i \in present |-> json_loads(row[json_attrs[i]].text)]
        Attr(i) == IF i \in present THEN decoded[i].value ELSE Absent
        raise == [raised |-> TRUE, cf |-> None, warnings |-> <<>>]
    IN  IF \E i \in present : ~decoded[i].ok
        THEN raise    \* ValueError from json.loads
        ELSE IF row.key_alias = None \/ 1 \notin present
        THEN raise    \* AttributeError: None has no decode / no column_aliases
        ELSE LET cf0 == [name |-> row.columnfamily,
                         key_alias |-> row.key_alias,
                         value_alias |-> row.value_alias,
                         comparator |-> row.comparator,
                         column_aliases |-> Attr(1),
                         compaction_strategy_options |-> Attr(2),
                         compression_parameters |-> Attr(3),
                         key_components |-> <<row.key_alias>> \o Attr(1),
                         key_validator |-> cql_typename(row.key_validator),
                         default_validator |-> cql_typename(row.default_validator),
                         coldefs |-> rows,
                         compact_storage |-> FALSE,
                         columns |-> <<>>]
                 cf1 == parse_composite(cf0)
             IN  [raised |-> FALSE, cf |-> cf1, warnings |-> check_assumptions(cf1)]

(***************************************************************************)
(* SpecTable: CqlTableDef.from_layout applied to a schema row and its      *)
(* column rows.                                                            *)
(***************************************************************************)
AliasPool == <<"c1", "c2", "c3", "c4">>
TypePool == {Int32TypeName, colname_type_name}

ColumnRowPool ==
    << [column |-> "a", validator |-> <<Int32TypeName>>, index_name |-> None],
       [column |-> "b", validator |-> <<colname_type_name>>, index_name |-> "b_idx"],
       [column |-> "c", validator |-> <<LongTypeName>>, index_name |-> None],
       [column |-> "d", validator |-> <<BytesTypeName>>, index_name |-> "d_idx"] >>

\* json.dumps of a list of strings
RECURSIVE JsonListBody(_)
JsonListBody(l) ==
    IF l = <<>> THEN <<>>
    ELSE IF Len(l) = 1 THEN <<Lit(l[1])>>
    ELSE <<Lit(l[1]), P(",")>> \o JsonListBody(Tail(l))

JsonList(l) == <<P("[")>> \o JsonListBody(l) \o <<P("]")>>

Field(text) == [present |-> TRUE, text |-> text]
NoField == [present |-> FALSE, text |-> <<>>]

ColumnAliasTexts ==
    {Field(JsonList(SubSeq(AliasPool, 1, n))) : n \in 0..MaxAliases}
        \cup {Field(<<P("["), Lit("c1")>>)}     \* not valid JSON
        \cup {NoField}

CompactionOptionTexts ==
    {Field(<<P("{"), P("}")>>),
     Field(<<P("{"), Lit("min_sstable_size")>>),     \* not valid JSON
     NoField}

CompressionParameterTexts ==
    {Field(<<P("{"), Lit("sstable_compression"), P(":"), Lit("SnappyCompressor"), P("}")>>),
     Field(<<>>),     \* not valid JSON
     NoField}

RECURSIVE CommaJoin(_)
CommaJoin(ts) ==
    IF Len(ts) = 1 THEN <<ts[1]>> ELSE <<ts[1], ",">> \o CommaJoin(Tail(ts))

CompositeOf(ts) == <<composite_type_name, "(">> \o CommaJoin(ts) \o <<")">>

Comparators ==
    {<<t>> : t \in TypePool}
        \cup {CompositeOf(ts) : ts \in SeqsUpTo(TypePool, MaxSubtypes) \ {<<>>}}

Layouts ==
    [columnfamily : {"t"},
     key_alias : {None, "id"},
     value_alias : {None, "data"},
     column_aliases : ColumnAliasTexts,
     comparator : Comparators,
     key_validator : {<<LongTypeName>>},
     default_validator : {<<BytesTypeName>>},
     compaction_strategy_options : CompactionOptionTexts,
     compression_parameters : CompressionParameterTexts]

ColumnRowLists == {SubSeq(ColumnRowPool, 1, n) : n \in 0..MaxColumnRows}

InitTable ==
    /\ layout \in Layouts
    /\ coldefs \in ColumnRowLists
    /\ cf = None
    /\ warnings = <<>>
    /\ tpc = "start"
    /\ NamesIdle
    /\ ComplIdle

FromLayout ==
    /\ tpc = "start"
    /\ LET r == from_layout(layout, coldefs)
       IN  /\ tpc' = IF r.raised THEN "raised" ELSE "returned"
           /\ cf' = r.cf
           /\ warnings' = r.warnings
    /\ UNCHANGED <<layout, coldefs, nameVars, complVars>>

NextTable == FromLayout

SpecTable == InitTable /\ [][NextTable]_vars

(***************************************************************************)
(* Properties of from_layout.                                              *)
(***************************************************************************)
Returned == tpc = "returned"

\* the layout row's column aliases are the JSON list of n aliases
HasAliases(n) == layout.column_aliases = Field(JsonList(SubSeq(AliasPool, 1, n)))

\* json.loads fails on a JSON field of the row
Malformed(field) == field.present /\ ~json_loads(field.text).ok

JsonFieldsDecode ==
    \A i \in 1..Len(json_attrs) :
        layout[json_attrs[i]].present /\ json_loads(layout[json_attrs[i]].text).ok

KeyValidatorType == cql_typename(layout.key_validator)
DefaultValidatorType == cql_typename(layout.default_validator)

\* the columns that come from the column rows, in row order
DeclaredColumns ==
    [i \in 1..Len(coldefs) |->
        [name |-> coldefs[i].column,
         cqltype |-> cql_typename(coldefs[i].validator),
         index_name |-> coldefs[i].index_name]]

Column(colname, cqltype) == [name |-> colname, cqltype |-> cqltype, index_name |-> None]

\* C3 as stated: a value alias, no column aliases, a non-composite comparator
\* and no column rows give [(K, key validator), (V, X)], compact storage and
\* no warning.
C3_CompactNoAliases ==
    (/\ Returned
     /\ layout.value_alias # None
     /\ HasAliases(0)
     /\ Len(layout.comparator) = 1
     /\ coldefs = <<>>)
    => /\ cf.columns = <<Column(layout.key_alias, KeyValidatorType),
                         Column(layout.value_alias, DefaultValidatorType)>>
       /\ cf.compact_storage = TRUE
       /\ warnings = <<>>

\* C3 amended: a value alias, one column alias c1, a non-composite
\* comparator T and no column rows give [(K, key validator), (c1, T), (V, X)],
\* compact storage and no warning.
C3_CompactOneAlias ==
    (/\ Returned
     /\ layout.value_alias # None
     /\ HasAliases(1)
     /\ Len(layout.comparator) = 1
     /\ coldefs = <<>>)
    => /\ cf.columns = <<Column(layout.key_alias, KeyValidatorType),
                         Column(AliasPool[1], cql_typename(layout.comparator)),
                         Column(layout.value_alias, DefaultValidatorType)>>
       /\ cf.compact_storage = TRUE
       /\ warnings = <<>>

C3_Witness ==
    /\ Returned
    /\ layout.value_alias # None
    /\ HasAliases(1)
    /\ Len(layout.comparator) = 1
    /\ coldefs = <<>>
    /\ Len(cf.columns) = 3

\* C4: no value alias, n >= 1 column aliases, a composite comparator of n+1
\* subtypes ending in the UTF8 column-name type, and m >= 1 column rows give
\* key components [K, c1..cn] typed by the key validator and the first n
\* subtypes, no compact storage, then the m declared columns in row order,
\* and no warning.
C4_DynamicComposite ==
    \A n \in 1..MaxAliases :
        \A ts \in SeqsUpTo(TypePool, MaxSubtypes) :
            (/\ Returned
             /\ layout.value_alias = None
             /\ HasAliases(n)
             /\ Len(ts) = n + 1
             /\ ts[n + 1] = colname_type_name
             /\ layout.comparator = CompositeOf(ts)
             /\ Len(coldefs) >= 1)
            => /\ cf.key_components = <<layout.key_alias>> \o SubSeq(AliasPool, 1, n)
               /\ Len(cf.columns) = n + 1 + Len(coldefs)
               /\ cf.columns[1] = Column(layout.key_alias, KeyValidatorType)
               /\ \A i \in 1..n :
                      cf.columns[i + 1] = Column(AliasPool[i], cql_typename(<<ts[i]>>))
               /\ SubSeq(cf.columns, n + 2, Len(cf.columns)) = DeclaredColumns
               /\ cf.compact_storage = FALSE
               /\ warnings = <<>>

C4_Witness ==
    /\ Returned
    /\ layout.value_alias = None
    /\ HasAliases(2)
    /\ layout.comparator = CompositeOf(<<Int32TypeName, colname_type_name, colname_type_name>>)
    /\ Len(coldefs) = 2
    /\ Len(cf.columns) = 5

\* the key component count differs from the count check_assumptions expects
KeyCountMismatch == Len(cf.key_components) # num_subtypes(cf)

\* C5 as stated: a key-count mismatch gives a table definition and exactly
\* one warning.
C5_ExactlyOneWarning == (Returned /\ KeyCountMismatch) => Len(warnings) = 1

\* C5 amended: a key-count mismatch gives a table definition whose last
\* warning is the one key-count warning, after at most one warning about the
\* shape of the table.
C5_KeyCountWarnedOnce ==
    (Returned /\ KeyCountMismatch)
    => /\ Len(warnings) \in {1, 2}
       /\ warnings[Len(warnings)] = "key_components_length"
       /\ \A i \in 1..(Len(warnings) - 1) : warnings[i] # "key_components_length"

C5_Witness ==
    /\ Returned
    /\ KeyCountMismatch
    /\ Len(warnings) = 2

\* C8: from_layout never raises; here for the rows whose JSON fields decode,
\* a null key alias among them.
C8_NeverAborts == (tpc # "start" /\ JsonFieldsDecode) => Returned

\* C9: a JSON field that does not decode is treated as absent and from_layout
\* still returns a table definition (here for rows that have a key alias and a
\* column_aliases field).
C9_MalformedTolerated ==
    (/\ tpc # "start"
     /\ layout.key_alias # None
     /\ layout.column_aliases.present
     /\ \E i \in 1..Len(json_attrs) : Malformed(layout[json_attrs[i]]))
    => Returned

\* C10 as stated: with a value alias and column rows, from_layout warns and
\* the columns are the key columns and then the value column (V, X), the
\* declared columns discarded.
C10_ValueAliasWins ==
    (Returned /\ layout.value_alias # None /\ coldefs # <<>>)
    => /\ warnings # <<>>
       /\ cf.columns[Len(cf.columns)] = Column(layout.value_alias, DefaultValidatorType)
       /\ \A i \in 1..Len(cf.columns) : \A j \in 1..Len(coldefs) :
              cf.columns[i] # DeclaredColumns[j]

\* C10 amended: with a value alias and column rows, from_layout warns of the
\* column rows first, sets no compact storage, and the columns are the key
\* columns and then the declared columns in row order, with no value column.
C10_DeclaredColumnsKept ==
    (Returned /\ layout.value_alias # None /\ coldefs # <<>>)
    => LET k == Len(cf.columns) - Len(coldefs)
       IN  /\ warnings # <<>>
           /\ warnings[1] = "compact_with_coldefs"
           /\ cf.compact_storage = FALSE
           /\ k >= Len(cf.key_components)
           /\ \A i \in 1..k :
                  cf.columns[i].name =
                      IF i <= Len(cf.key_components) THEN cf.key_components[i] ELSE None
           /\ SubSeq(cf.columns, k + 1, Len(cf.columns)) = DeclaredColumns
           /\ \A i \in 1..Len(cf.columns) : cf.columns[i].name # layout.value_alias

C10_Witness ==
    /\ Returned
    /\ layout.value_alias # None
    /\ HasAliases(1)
    /\ Len(coldefs) = 2
    /\ Len(warnings) = 1

(***************************************************************************)
(* Completers.  ctxt is a function from the names of the bound bindings to *)
(* their values: a string for a plain binding, the sequence of the matched *)
(* texts for a repeatable one.  A completer's result is [raised, value].   *)
(***************************************************************************)
MaxOpts == 3

CONSISTENCY == <<"C", "O", "N", "S", "I", "S", "T", "E", "N", "C", "Y">>
TIMESTAMP == <<"T", "I", "M", "E", "S", "T", "A", "M", "P">>
TTL == <<"T", "T", "L">>

\* ctxt.get_binding(name, default)
get_binding(c, bname, default) == IF bname \in DOMAIN c THEN c[bname] ELSE default

\* s.split(): the words of s, separated by runs of whitespace
RECURSIVE SplitWords(_, _)
SplitWords(str, cur) ==
    IF str = <<>> THEN (IF cur = <<>> THEN <<>> ELSE <<cur>>)
    ELSE IF Head(str) \in Whitespace
         THEN (IF cur = <<>> THEN <<>> ELSE <<cur>>) \o SplitWords(Tail(str), <<>>)
         ELSE SplitWords(Tail(str), Append(cur, Head(str)))

Split(str) == SplitWords(str, <<>>)

Range(f) == {f[i] : i \in DOMAIN f}

\* opts.discard(opt.split()[0]) for each opt of the binding
DiscardChosen(opts, chosen) == opts \ {Split(chosen[i])[1] : i \in 1..Len(chosen)}

Return(v) == [raised |-> FALSE, value |-> v]
Raise == [raised |-> TRUE, value |-> <<>>]

\* the completer of (insertStatement, insertopt)
insert_option_completer(c, ca) ==
    Return(DiscardChosen({CONSISTENCY, TIMESTAMP, TTL}, get_binding(c, "insertopt", <<>>)))

\* the completer of (updateStatement, updateopt)
update_option_completer(c, ca) ==
    Return(DiscardChosen({CONSISTENCY, TIMESTAMP, TTL}, get_binding(c, "updateopt", <<>>)))

\* the completer of (deleteStatement, delopt)
delete_opt_completer(c, ca) ==
    Return(DiscardChosen({CONSISTENCY, TIMESTAMP}, get_binding(c, "delopt", <<>>)))

\* the completer of (batchStatement, batchopt)
batch_opt_completer(c, ca) ==
    Return(DiscardChosen({CONSISTENCY, TIMESTAMP}, get_binding(c, "batchopt", <<>>)))

\* the keywords that start the alternatives of <usingOption> and <deleteOption>
usingOption == {CONSISTENCY, TIMESTAMP, TTL}
deleteOption == {CONSISTENCY, TIMESTAMP}

\* the rule whose matches each repeatable option binding collects
OptionRule ==
    [insertopt |-> usingOption, updateopt |-> usingOption,
     delopt |-> deleteOption, batchopt |-> usingOption]

\* ---- helpers of cqlhandling ----
\* maybe_cql_escape: a bare identifier that is no keyword is left as it is,
\* any other name is quoted
maybe_cql_escape(n) ==
    IF WholeWord(n) /\ LowerStr(n) \notin keywords THEN n
    ELSE <<"\"">> \o DoubleQuotes(n) \o <<"\"">>

\* cql_dequote: the inverse of the quoting
cql_dequote(n) ==
    IF Len(n) >= 2 /\ n[1] = "\"" THEN UndoubleQuotes(Slice1ToLast(n)) ELSE n

\* ---- the schema accessor ----
\* cass.get_columnfamily_names(ks)
get_columnfamily_names(ca, ks) == IF ca.cf_lookup_fails THEN Raise ELSE Return(ca.cfnames)

\* cass.get_keyspace_names()
get_keyspace_names(ca) == ca.ksnames

\* select_source_completer with the failure of the schema accessor passed on
\* whatever is bound
select_source_completer_Reraise(c, ca) ==
    LET bound == "selectks" \in DOMAIN c
        cfnames == get_columnfamily_names(ca, IF bound THEN cql_dequote(c["selectks"]) ELSE None)
    IN  IF cfnames.raised THEN Raise
        ELSE Return([i \in 1..Len(cfnames.value) |-> maybe_cql_escape(cfnames.value[i])])

\* the completer of (selectStatement, selectsource)
select_source_completer(c, ca) ==
    LET bound == "selectks" \in DOMAIN c
        cfnames == get_columnfamily_names(ca, IF bound THEN cql_dequote(c["selectks"]) ELSE None)
    IN  IF cfnames.raised
        THEN IF ~bound THEN Return(<<>>) ELSE Raise
        ELSE Return([i \in 1..Len(cfnames.value) |-> maybe_cql_escape(cfnames.value[i])])

\* the completer of (insertStatement, insertcf)
insert_cf_completer(c, ca) ==
    LET bound == "insertks" \in DOMAIN c
        cfnames == get_columnfamily_names(ca, IF bound THEN cql_dequote(c["insertks"]) ELSE None)
    IN  IF cfnames.raised
        THEN IF ~bound THEN Return(<<>>) ELSE Raise
        ELSE Return([i \in 1..Len(cfnames.value) |-> maybe_cql_escape(cfnames.value[i])])

\* the completer of (updateStatement, updatecf)
update_cf_completer(c, ca) ==
    LET bound == "updateks" \in DOMAIN c
        cfnames == get_columnfamily_names(ca, IF bound THEN cql_dequote(c["updateks"]) ELSE None)
    IN  IF cfnames.raised
        THEN IF ~bound THEN Return(<<>>) ELSE Raise
        ELSE Return([i \in 1..Len(cfnames.value) |-> maybe_cql_escape(cfnames.value[i])])

\* the completer of (deleteStatement, deletecf)
delete_cf_completer(c, ca) ==
    LET bound == "deleteks" \in DOMAIN c
        cfnames == get_columnfamily_names(ca, IF bound THEN cql_dequote(c["deleteks"]) ELSE None)
    IN  IF cfnames.raised
        THEN IF ~bound THEN Return(<<>>) ELSE Raise
        ELSE Return([i \in 1..Len(cfnames.value) |-> maybe_cql_escape(cfnames.value[i])])

\* the completer of (truncateStatement, truncatecf)
truncate_cf_completer(c, ca) ==
    LET bound == "truncateks" \in DOMAIN c
        cfnames == get_columnfamily_names(ca, IF bound THEN cql_dequote(c["truncateks"]) ELSE None)
    IN  IF cfnames.raised
        THEN IF ~bound THEN Return(<<>>) ELSE Raise
        ELSE Return([i \in 1..Len(cfnames.value) |-> maybe_cql_escape(cfnames.value[i])])

\* select_keyspace_completer without the dot after the keyspace name
select_keyspace_completer_NoDot(c, ca) ==
    LET ksnames == get_keyspace_names(ca)
    IN  Return([i \in 1..Len(ksnames) |-> maybe_cql_escape(ksnames[i])])

\* the completer of (selectStatement, selectks)
select_keyspace_completer(c, ca) ==
    LET ksnames == get_keyspace_names(ca)
    IN  Return([i \in 1..Len(ksnames) |-> maybe_cql_escape(ksnames[i]) \o <<".">>])

\* the completion engine at "SELECT ... FROM ": the completers of the two
\* bindings that can come next, their results merged into one candidate set
resolve_after_from(c, ca) ==
    LET ks == select_keyspace_completer(c, ca)
        src == select_source_completer(c, ca)
    IN  Return((IF ks.raised THEN {} ELSE Range(ks.value))
                   \cup (IF src.raised THEN {} ELSE Range(src.value)))

\* ---- table definitions of the schema accessor ----
id_name == <<"i", "d">>
hits_name == <<"h", "i", "t", "s">>
note_name == <<"n", "o", "t", "e">>
KEY == <<"K", "E", "Y">>
IN_word == <<"I", "N">>

\* the table definition the schema accessor has for each of its tables
SchemaTableDef ==
    [key_alias |-> id_name, column_metadata |-> <<hits_name, note_name>>,
     counter_columns |-> {hits_name}]

\* the table a completer asked the schema accessor for, if it asked
Asked(tname) == [asked |-> TRUE, name |-> tname]
NotAsked == [asked |-> FALSE, name |-> <<>>]

\* cass.get_columnfamily(name): [raised, value, table], table the name asked for
get_columnfamily(ca, tname) ==
    IF ca.cf_lookup_fails \/ tname \notin Range(ca.cfnames)
    THEN [raised |-> TRUE, value |-> <<>>, table |-> Asked(tname)]
    ELSE [raised |-> FALSE, value |-> SchemaTableDef, table |-> Asked(tname)]

\* cass.filterable_column_names(name)
filterable_column_names(ca, tname) ==
    IF ca.cf_lookup_fails \/ tname \notin Range(ca.cfnames)
    THEN [raised |-> TRUE, value |-> <<>>, table |-> Asked(tname)]
    ELSE [raised |-> FALSE, value |-> <<id_name>>, table |-> Asked(tname)]

is_counter_col(cfdef, col) == col \in cfdef.counter_columns

Hint(text) == <<"Hint", text>>

\* cql_dequote(ctxt.get_binding('cf')): get_binding gives None for a binding
\* that is not bound, and None cannot be dequoted
dequoted_cf_binding(c) ==
    IF "cf" \in DOMAIN c
    THEN [raised |-> FALSE, value |-> cql_dequote(c["cf"])]
    ELSE [raised |-> TRUE, value |-> <<>>]

\* a completer failing before it asks the schema accessor for a table
RaiseBeforeLookup == [raised |-> TRUE, value |-> <<>>, table |-> NotAsked]

\* a completer's result after asking for the table of lookup
Result(lookup, v) == [raised |-> FALSE, value |-> v, table |-> lookup.table]

\* the completer of (assignment, updatecol)
update_col_completer(c, ca) ==
    LET tname == dequoted_cf_binding(c)
        cfdef == get_columnfamily(ca, tname.value)
    IN  IF tname.raised THEN RaiseBeforeLookup
        ELSE IF cfdef.raised THEN cfdef
        ELSE Result(cfdef,
                 [i \in 1..Len(cfdef.value.column_metadata) |->
                     maybe_cql_escape(cfdef.value.column_metadata[i])]
                 \o <<Hint("<colname>")>>)

\* the completer of (assignment, update_rhs)
update_countername_completer(c, ca) ==
    LET tname == dequoted_cf_binding(c)
        cfdef == get_columnfamily(ca, tname.value)
        curcol == cql_dequote(get_binding(c, "updatecol", <<>>))
    IN  IF tname.raised THEN RaiseBeforeLookup
        ELSE IF cfdef.raised THEN cfdef
        ELSE Result(cfdef, IF is_counter_col(cfdef.value, curcol)
                           THEN <<maybe_cql_escape(curcol)>>
                           ELSE <<Hint("<term>")>>)

\* the completer of (assignment, counterop)
update_counterop_completer(c, ca) ==
    LET tname == dequoted_cf_binding(c)
        cfdef == get_columnfamily(ca, tname.value)
        curcol == cql_dequote(get_binding(c, "updatecol", <<>>))
    IN  IF tname.raised THEN RaiseBeforeLookup
        ELSE IF cfdef.raised THEN cfdef
        ELSE Result(cfdef, IF is_counter_col(cfdef.value, curcol)
                           THEN <<<<"+">>, <<"-">>>>
                           ELSE <<>>)

\* the completer of (updateWhereClause, updatefiltercol)
update_filtercol_completer(c, ca) ==
    LET cfname == dequoted_cf_binding(c)
        cols == filterable_column_names(ca, cfname.value)
    IN  IF cfname.raised THEN RaiseBeforeLookup
        ELSE IF cols.raised THEN cols
        ELSE Result(cols, [i \in 1..Len(cols.value) |-> maybe_cql_escape(cols.value[i])])

\* the completer of (updateWhereClause, updatefilterkey)
update_filterkey_completer(c, ca) ==
    LET tname == dequoted_cf_binding(c)
        cfdef == get_columnfamily(ca, tname.value)
    IN  IF tname.raised THEN RaiseBeforeLookup
        ELSE IF cfdef.raised THEN cfdef
        ELSE Result(cfdef, <<IF cfdef.value.key_alias # None
                             THEN cfdef.value.key_alias ELSE KEY>>)

\* the completer of (updateWhereClause, filter_in)
update_filter_in_completer(c, ca) ==
    LET tname == dequoted_cf_binding(c)
        cfdef == get_columnfamily(ca, tname.value)
        fk == get_binding(c, "updatefilterkey", <<>>)
    IN  IF tname.raised THEN RaiseBeforeLookup
        ELSE IF cfdef.raised THEN cfdef
        ELSE Result(cfdef, IF fk \in {KEY, cfdef.value.key_alias} THEN <<IN_word>> ELSE <<>>)

\* the bindings of <updateStatement> and of <deleteStatement>, those of the
\* <assignment> and <updateWhereClause> inside them included
AssignmentBindings == {"updatecol", "update_rhs", "counterop"}
WhereClauseBindings == {"updatefiltercol", "updatefilterkey", "filter_in"}
updateStatementBindings ==
    {"updateks", "updatecf", "updateopt"} \cup AssignmentBindings \cup WhereClauseBindings
deleteStatementBindings ==
    {"delcol", "deleteks", "deletecf", "delopt"} \cup WhereClauseBindings

\* ---- table options ----
columnfamily_options ==
    <<<<"c", "o", "m", "m", "e", "n", "t">>,
      <<"b", "l", "o", "o", "m", "_", "f", "i", "l", "t", "e", "r", "_", "f", "p", "_", "c", "h", "a", "n", "c", "e">>,
      <<"c", "a", "c", "h", "i", "n", "g">>,
      <<"r", "e", "a", "d", "_", "r", "e", "p", "a", "i", "r", "_", "c", "h", "a", "n", "c", "e">>,
      <<"g", "c", "_", "g", "r", "a", "c", "e", "_", "s", "e", "c", "o", "n", "d", "s">>,
      <<"m", "i", "n", "_", "c", "o", "m", "p", "a", "c", "t", "i", "o", "n", "_", "t", "h", "r", "e", "s", "h", "o", "l", "d">>,
      <<"m", "a", "x", "_", "c", "o", "m", "p", "a", "c", "t", "i", "o", "n", "_", "t", "h", "r", "e", "s", "h", "o", "l", "d">>,
      <<"r", "e", "p", "l", "i", "c", "a", "t", "e", "_", "o", "n", "_", "w", "r", "i", "t", "e">>,
      <<"c", "o", "m", "p", "a", "c", "t", "i", "o", "n", "_", "s", "t", "r", "a", "t", "e", "g", "y", "_", "c", "l", "a", "s", "s">>>>

columnfamily_map_options ==
    <<<<<<"c", "o", "m", "p", "a", "c", "t", "i", "o", "n", "_", "s", "t", "r", "a", "t", "e", "g", "y", "_", "o", "p", "t", "i", "o", "n", "s">>, <<>>>>,
      <<<<"c", "o", "m", "p", "r", "e", "s", "s", "i", "o", "n", "_", "p", "a", "r", "a", "m", "e", "t", "e", "r", "s">>,
        <<<<"s", "s", "t", "a", "b", "l", "e", "_", "c", "o", "m", "p", "r", "e", "s", "s", "i", "o", "n">>, <<"c", "h", "u", "n", "k", "_", "l", "e", "n", "g", "t", "h", "_", "k", "b">>, <<"c", "r", "c", "_", "c", "h", "e", "c", "k", "_", "c", "h", "a", "n", "c", "e">>>>>>>>

\* the completer of (cfOptionName, cfoptname).  c[0] of a string is its first
\* character, c[0] of a (name, suboptions) tuple is the name.
create_cf_option_completer(c, ca) ==
    Return([i \in 1..Len(columnfamily_options) |-> <<columnfamily_options[i][1]>>]
           \o [i \in 1..Len(columnfamily_map_options) |->
                  columnfamily_map_options[i][1] \o <<":">>])

(***************************************************************************)
(* SpecCompleters: the completer of the binding at the cursor applied to   *)
(* the bindings matched so far and to the schema.                          *)
(***************************************************************************)
\* texts a <usingOption> can have matched; keywords match in any letter case
UsingOptionTexts ==
    {<<"C", "O", "N", "S", "I", "S", "T", "E", "N", "C", "Y", " ", "O", "N", "E">>,
     <<"c", "o", "n", "s", "i", "s", "t", "e", "n", "c", "y", " ", "O", "N", "E">>,
     <<"T", "I", "M", "E", "S", "T", "A", "M", "P", " ", "1">>,
     <<"T", "i", "m", "e", "s", "t", "a", "m", "p", " ", " ", "1">>,
     <<"T", "T", "L", " ", "5">>}

\* texts a <deleteOption> can have matched
DeleteOptionTexts ==
    {t \in UsingOptionTexts : UpperStr(Split(t)[1]) \in deleteOption}

OptionBindings == {"insertopt", "updateopt", "delopt", "batchopt"}

NoBindings == [b \in {} |-> <<>>]

\* the bindings once the texts of chosen were matched under binding b
OptionContext(b, chosen) == IF chosen = <<>> THEN NoBindings ELSE (b :> chosen)

users == <<"u", "s", "e", "r", "s">>
events == <<"e", "v", "e", "n", "t", "s">>
ks1 == <<"k", "s", "1">>
my_ks == <<"m", "y", " ", "k", "s">>

SchemaAccessors ==
    [ksnames : {<<>>, <<ks1>>, <<ks1, my_ks>>},
     cfnames : {<<users, events>>, <<>>},
     cf_lookup_fails : BOOLEAN]

\* the table-name bindings and the keyspace binding that can precede each
TableBinding == <<"selectsource", "insertcf", "updatecf", "deletecf", "truncatecf">>
KeyspaceBinding == <<"selectks", "insertks", "updateks", "deleteks", "truncateks">>

\* the cursor positions and the bindings that can have been matched there
Cursors ==
    {<<b, OptionContext(b, chosen)>> :
        b \in {"insertopt", "updateopt", "batchopt"},
        chosen \in SeqsUpTo(UsingOptionTexts, MaxOpts)}
    \cup {<<"delopt", OptionContext("delopt", chosen)>> :
        chosen \in SeqsUpTo(DeleteOptionTexts, MaxOpts)}
    \cup {<<"selectks", NoBindings>>, <<"after FROM", NoBindings>>}
    \cup {<<"selectsource", NoBindings>>, <<"selectsource", ("selectks" :> ks1)>>,
          <<"selectsource", ("selectks" :> maybe_cql_escape(my_ks))>>}
    \cup {<<TableBinding[i], NoBindings>> : i \in 2..Len(TableBinding)}
    \cup {<<b, ("updatecf" :> t)>> :
              b \in {"updatecol", "updatefiltercol", "updatefilterkey"}, t \in {users, events}}
    \cup {<<b, ("updatecf" :> t) @@ ("updatecol" :> col)>> :
              b \in {"update_rhs", "counterop"}, t \in {users, events},
              col \in {hits_name, note_name}}
    \cup {<<"filter_in", ("updatecf" :> t) @@ ("updatefilterkey" :> k)>> :
              t \in {users, events}, k \in {KEY, id_name}}
    \cup {<<b, ("deletecf" :> t)>> :
              b \in {"updatefiltercol", "updatefilterkey"}, t \in {users, events}}
    \cup {<<"filter_in", ("deletecf" :> t) @@ ("updatefilterkey" :> k)>> :
              t \in {users, events}, k \in {KEY, id_name}}
    \cup {<<"cfoptname", ("cf" :> t)>> : t \in {users, events}}
    \cup {<<TableBinding[i], (KeyspaceBinding[i] :> k)>> :
              i \in 2..Len(TableBinding), k \in {ks1, maybe_cql_escape(my_ks)}}

InitCompleters ==
    /\ \E cur \in Cursors : position = cur[1] /\ ctxt = cur[2]
    /\ cass \in SchemaAccessors
    /\ cpc = "start"
    /\ candidates = None
    /\ NamesIdle
    /\ TableIdle

Complete(b, result) ==
    /\ cpc = "start"
    /\ position = b
    /\ candidates' = result
    /\ cpc' = "done"
    /\ UNCHANGED <<ctxt, cass, position, nameVars, tableVars>>

InsertOptionCompleter == Complete("insertopt", insert_option_completer(ctxt, cass))

UpdateOptionCompleter == Complete("updateopt", update_option_completer(ctxt, cass))

DeleteOptCompleter == Complete("delopt", delete_opt_completer(ctxt, cass))

BatchOptCompleter == Complete("batchopt", batch_opt_completer(ctxt, cass))

SelectSourceCompleter == Complete("selectsource", select_source_completer(ctxt, cass))

SelectKeyspaceCompleter == Complete("selectks", select_keyspace_completer(ctxt, cass))

ResolveAfterFrom == Complete("after FROM", resolve_after_from(ctxt, cass))

InsertCfCompleter == Complete("insertcf", insert_cf_completer(ctxt, cass))

UpdateCfCompleter == Complete("updatecf", update_cf_completer(ctxt, cass))

DeleteCfCompleter == Complete("deletecf", delete_cf_completer(ctxt, cass))

TruncateCfCompleter == Complete("truncatecf", truncate_cf_completer(ctxt, cass))

UpdateColCompleter == Complete("updatecol", update_col_completer(ctxt, cass))

UpdateCounternameCompleter == Complete("update_rhs", update_countername_completer(ctxt, cass))

UpdateCounteropCompleter == Complete("counterop", update_counterop_completer(ctxt, cass))

UpdateFiltercolCompleter == Complete("updatefiltercol", update_filtercol_completer(ctxt, cass))

UpdateFilterkeyCompleter == Complete("updatefilterkey", update_filterkey_completer(ctxt, cass))

UpdateFilterInCompleter == Complete("filter_in", update_filter_in_completer(ctxt, cass))

CreateCfOptionCompleter == Complete("cfoptname", create_cf_option_completer(ctxt, cass))

NextCompleters ==
    \/ InsertOptionCompleter
    \/ UpdateOptionCompleter
    \/ DeleteOptCompleter
    \/ BatchOptCompleter
    \/ SelectSourceCompleter
    \/ SelectKeyspaceCompleter
    \/ ResolveAfterFrom
    \/ InsertCfCompleter
    \/ UpdateCfCompleter
    \/ DeleteCfCompleter
    \/ TruncateCfCompleter
    \/ UpdateColCompleter
    \/ UpdateCounternameCompleter
    \/ UpdateCounteropCompleter
    \/ UpdateFiltercolCompleter
    \/ UpdateFilterkeyCompleter
    \/ UpdateFilterInCompleter
    \/ CreateCfOptionCompleter

SpecCompleters == InitCompleters /\ [][NextCompleters]_vars

\* the texts matched so far under the binding at the cursor
Chosen == get_binding(ctxt, position, <<>>)

\* C6: an option completer returns the keywords of the binding's option rule
\* less the keywords, in whatever letter case, that start the texts already
\* matched under the binding; it returns none once all have been chosen.
C6_OptionsExcludeChosen ==
    (cpc = "done" /\ position \in OptionBindings)
    => /\ ~candidates.raised
       /\ candidates.value =
              OptionRule[position] \ {UpperStr(Split(Chosen[i])[1]) : i \in 1..Len(Chosen)}

\* the part of C6 the code keeps: what is offered is a keyword of the rule
\* that starts none of the matched texts as written
C6_OfferedNotChosenVerbatim ==
    (cpc = "done" /\ position \in OptionBindings)
    => /\ candidates.value \subseteq OptionRule[position]
       /\ \A i \in 1..Len(Chosen) : Split(Chosen[i])[1] \notin candidates.value

HasUsersAndEvents == cass.cfnames = <<users, events>> /\ ~cass.cf_lookup_fails

TableLookupFailed ==
    /\ cpc = "done"
    /\ position \in Range(TableBinding)
    /\ cass.cf_lookup_fails

\* a keyspace qualifier was bound before the table name
KeyspaceBound == \E i \in 1..Len(KeyspaceBinding) : KeyspaceBinding[i] \in DOMAIN ctxt

\* C11 as stated: when get_columnfamily_names fails, a table-name completer
\* returns no candidates, whether or not a keyspace qualifier was bound.
C11_FailureIsolated ==
    TableLookupFailed => (~candidates.raised /\ candidates.value = <<>>)

\* C11 amended: when get_columnfamily_names fails, a table-name completer
\* returns no candidates if no keyspace qualifier was bound, and passes the
\* failure on if one was.
C11_FailureIsolatedUnqualified ==
    TableLookupFailed =>
        IF KeyspaceBound
        THEN candidates.raised
        ELSE ~candidates.raised /\ candidates.value = <<>>

C11_Witness ==
    /\ TableLookupFailed
    /\ position = "selectsource"
    /\ ~KeyspaceBound
    /\ ~candidates.raised

(***************************************************************************)
(* Further properties of from_layout.                                      *)
(***************************************************************************)
\* C12: no two columns of a returned table definition have the same name.
C12_UniqueColumnNames ==
    Returned =>
        \A i, j \in 1..Len(cf.columns) :
            cf.columns[i].name = cf.columns[j].name => i = j

\* the part of C12 the code keeps: the columns that have a name have
\* different names
C12_UniqueNonNullNames ==
    Returned =>
        \A i, j \in 1..Len(cf.columns) :
            (cf.columns[i].name # None /\ cf.columns[i].name = cf.columns[j].name) => i = j

\* C13: with no value alias, no column aliases and a non-composite
\* comparator, the key part is the one column (K, key validator), each key
\* column is named after a key component, and the declared columns follow
\* directly.
C13_SingleColumnKey ==
    (/\ Returned
     /\ layout.value_alias = None
     /\ HasAliases(0)
     /\ Len(layout.comparator) = 1)
    => /\ cf.key_components = <<layout.key_alias>>
       /\ cf.columns = <<Column(layout.key_alias, KeyValidatorType)>> \o DeclaredColumns

\* C14: compact storage is set and a value column emitted only when the
\* layout row has a value alias; stated here for the case the claim names: a
\* composite table with column aliases, no value alias and no column rows is
\* warned about but neither compact nor given a value column.
C14_CompactFollowsValueAlias ==
    (/\ Returned
     /\ layout.value_alias = None
     /\ StartsWithComposite(layout.comparator)
     /\ cf.column_aliases # <<>>
     /\ coldefs = <<>>)
    => /\ warnings # <<>>
       /\ cf.compact_storage = FALSE
       /\ \A i \in 1..Len(cf.columns) :
              cf.columns[i] # Column(layout.value_alias, DefaultValidatorType)

(***************************************************************************)
(* Further properties of the completers.                                   *)
(***************************************************************************)
\* the table name typed after UPDATE, or after DELETE ... FROM
TypedTable == IF "updatecf" \in DOMAIN ctxt THEN ctxt["updatecf"] ELSE ctxt["deletecf"]

\* the binding the completers of <assignment> and <updateWhereClause> read
\* the table name from
TableBindingRead == "cf"

\* C15: the completers of <assignment> and <updateWhereClause> read the table
\* from a binding that <updateStatement> / <deleteStatement> binds, and so ask
\* the schema accessor for the dequoted table name typed in the statement.
C15_CompletersReadOwnTable ==
    (cpc = "done" /\ position \in AssignmentBindings \cup WhereClauseBindings)
    => /\ TableBindingRead \in updateStatementBindings \cap deleteStatementBindings
       /\ candidates.table = Asked(cql_dequote(TypedTable))

\* C16: the completer of (cfOptionName, cfoptname) returns the names of
\* columnfamily_options in full and then the names of
\* columnfamily_map_options with ':' appended.
C16_OptionNamesInFull ==
    (cpc = "done" /\ position = "cfoptname")
    => /\ ~candidates.raised
       /\ candidates.value =
              columnfamily_options
                  \o [i \in 1..Len(columnfamily_map_options) |->
                         columnfamily_map_options[i][1] \o <<":">>]
====
